---- MODULE Spec2Model ----
(***************************************************************************)
(* Model of src/src/hyper.rs: the hyper backend of http-client.            *)
(*                                                                         *)
(* HyperClient::send clones the shared engine handle, translates the       *)
(* abstract (http_types) request into a native (hyper) request, hands it   *)
(* to the engine, and translates the native response back.  Every send is  *)
(* a process p; its position in the code is pc[p].  Header names, header   *)
(* values and bodies are sequences of bytes (0..255), header collections   *)
(* are maps from name to the sequence of values stored under that name.    *)
(* The validation rules of the two header libraries are modelled by what   *)
(* they accept, byte by byte, so that a disagreement between them is a     *)
(* case of the model.                                                      *)
(***************************************************************************)
EXTENDS Integers, Sequences, FiniteSets, TLC

(***************************************************************************)
(* Bounds of the model.                                                    *)
(***************************************************************************)
\* number of send calls issued on the one adapter
NSends == 2
\* header names per message in the header-focused specifications
MaxNames == 2
\* values stored under one header name
MaxVals == 2
\* chunks the engine delivers for one response body
MaxChunks == 2

Procs == 1..NSends

(***************************************************************************)
(* Results and options.                                                    *)
(***************************************************************************)
Ok(v) == [kind |-> "ok", val |-> v]

\* an Err carried to the caller by `?`
Fail(e) == [kind |-> "err", val |-> e]

\* the panic of an unwrap() on an Err
Panic == [kind |-> "panic", val |-> <<>>]

\* Result::unwrap
Unwrap(r) == IF r.kind = "ok" THEN r ELSE Panic

Some(v) == [some |-> TRUE, v |-> v]

NoScheme == [some |-> FALSE, v |-> ""]

NoName == [some |-> FALSE, v |-> <<>>]

Error(status, msg) == [status |-> status, msg |-> msg]

EmptyMap == <<>>

(***************************************************************************)
(* Bytes.                                                                  *)
(***************************************************************************)
\* u8::is_ascii
IsAscii(b) == b < 128

\* u8::to_ascii_lowercase
ToAsciiLowercase(b) == IF b \in 65..90 THEN b + 32 ELSE b

\* http::header::name HEADER_CHARS: a token character maps to its lower-case
\* form, every other byte to 0
HeaderChar(b) ==
    IF b \in 65..90 THEN b + 32
    ELSE IF \/ b \in 97..122
            \/ b \in 48..57
            \/ b \in {33, 35, 36, 37, 38, 39, 42, 43, 45, 46, 94, 95, 96, 124, 126}
         THEN b
         ELSE 0

\* http::header::value is_valid: visible ASCII, obs-text, space and tab
IsValidValueByte(b) == (b >= 32 /\ b /= 127) \/ b = 9

(***************************************************************************)
(* The two header libraries.                                               *)
(***************************************************************************)
\* hyper::header::HeaderName::from_str (line 69)
HyperHeaderNameFromStr(name) ==
    IF Len(name) = 0 \/ \E i \in 1..Len(name) : HeaderChar(name[i]) = 0
    THEN Fail(Error("InternalServerError", "invalid HTTP header name"))
    ELSE Ok([i \in 1..Len(name) |-> HeaderChar(name[i])])

\* hyper::header::HeaderValue::from_bytes (line 74)
HyperHeaderValueFromBytes(value) ==
    IF \E i \in 1..Len(value) : ~IsValidValueByte(value[i])
    THEN Fail(Error("InternalServerError", "failed to parse header value"))
    ELSE Ok(value)

\* http_types::headers::HeaderName::from_str (line 126)
HeaderNameFromStr(name) ==
    IF \E i \in 1..Len(name) : ~IsAscii(name[i])
    THEN Fail(Error("InternalServerError", "String slice should be valid ASCII"))
    ELSE Ok([i \in 1..Len(name) |-> ToAsciiLowercase(name[i])])

\* http_types::headers::HeaderValue::from_bytes (line 122)
HeaderValueFromBytes(value) ==
    IF \E i \in 1..Len(value) : ~IsAscii(value[i])
    THEN Fail(Error("InternalServerError", "Bytes should be valid ASCII"))
    ELSE Ok(value)

\* faulty variant of HeaderMap::append: the value replaces what the name held
HeaderMapInsert(headers, name, value) ==
    [n \in DOMAIN headers \cup {name} |-> IF n = name THEN <<value>> ELSE headers[n]]

\* hyper::HeaderMap::append (line 75): the value is added after the values
\* the name already holds
HeaderMapAppend(headers, name, value) ==
    [n \in DOMAIN headers \cup {name} |->
        IF n = name
        THEN IF name \in DOMAIN headers THEN Append(headers[name], value) ELSE <<value>>
        ELSE headers[n]]

\* http_types::Response::insert_header (line 127): the value replaces the
\* values the name held
InsertHeader(headers, name, value) ==
    [n \in DOMAIN headers \cup {name} |-> IF n = name THEN <<value>> ELSE headers[n]]

(***************************************************************************)
(* Request translation: HyperHttpRequest::try_from.                        *)
(***************************************************************************)
\* http::Uri accepts at most u16::MAX - 1 bytes
MaxUriLen == 65535 - 1

\* hyper::Uri::try_from(&format!("{}", value.url())) (line 55).  A URL is its
\* scheme, whether "//" follows the scheme, and its length in bytes.  A URL
\* without "//" parses as an authority, a URI that has no scheme.
UriTryFrom(url) ==
    IF url.len > MaxUriLen
    THEN Fail(Error("InternalServerError", "uri too long"))
    ELSE Ok([scheme |-> IF url.slashes THEN Some(url.scheme) ELSE NoScheme])

\* the scheme match of lines 58-61
SchemeAccepted(uri) == uri.scheme \in {Some("http"), Some("https")}

\* the inner loop of lines 71-76: every value of one name, in order
RECURSIVE AppendValues(_, _, _)
AppendValues(headers, name, values) ==
    IF values = <<>> THEN Ok(headers)
    ELSE LET value == Unwrap(HyperHeaderValueFromBytes(Head(values)))
         IN  IF value.kind /= "ok" THEN value
             ELSE AppendValues(HeaderMapAppend(headers, name, value.val), name, Tail(values))

\* the loop of lines 67-77 over the names not yet visited (a hash map: the
\* order of the names is the map's)
RECURSIVE CopyRequestHeaders(_, _, _)
CopyRequestHeaders(headers, source, names) ==
    IF names = {} THEN Ok(headers)
    ELSE LET n == CHOOSE x \in names : TRUE
             name == Unwrap(HyperHeaderNameFromStr(n))
         IN  IF name.kind /= "ok" THEN name
             ELSE LET copied == AppendValues(headers, name.val, source[n])
                  IN  IF copied.kind /= "ok" THEN copied
                      ELSE CopyRequestHeaders(copied.val, source, names \ {n})

\* faulty variant of Request::body_bytes: the body is taken but its bytes are lost
BodyBytesLost(body) ==
    IF body.readable THEN Ok(<<>>)
    ELSE Fail(Error("UnprocessableEntity", "unable to read request body"))

\* value.body_bytes().await (line 79): the whole body, or the read error
BodyBytes(body) ==
    IF body.readable THEN Ok(body.bytes)
    ELSE Fail(Error("UnprocessableEntity", "unable to read request body"))

\* http::Version::default(), used when the request names no version (line 84)
DefaultVersion == "HTTP/1.1"

NativeVersion(version) == IF version.some THEN version.v ELSE DefaultVersion

\* the builder before anything is set (line 63)
NoNativeRequest ==
    [built |-> FALSE, method |-> "", version |-> "", scheme |-> "",
     headers |-> EmptyMap, body |-> <<>>]

(***************************************************************************)
(* Response translation: HttpTypesResponse::try_from.                      *)
(***************************************************************************)
\* the entries of one name in HeaderMap's IntoIter: the name comes with the
\* first value only, the further values of the name come with None
EntriesOf(name, values) ==
    [i \in 1..Len(values) |->
        [name |-> IF i = 1 THEN Some(name) ELSE NoName, value |-> values[i]]]

\* parts.headers.into_iter() (line 120)
RECURSIVE IntoIter(_, _)
IntoIter(headers, names) ==
    IF names = {} THEN <<>>
    ELSE LET n == CHOOSE x \in names : TRUE
         IN  EntriesOf(n, headers[n]) \o IntoIter(headers, names \ {n})

\* faulty variant of lines 121-128: the name is looked at before the value
HeaderEntryNameFirst(headers, entry) ==
    IF ~entry.name.some THEN Ok(headers)
    ELSE LET value == HeaderValueFromBytes(entry.value)
             name == HeaderNameFromStr(entry.name.v)
         IN  IF value.kind /= "ok" THEN value
             ELSE IF name.kind /= "ok" THEN name
             ELSE Ok(InsertHeader(headers, name.val, value.val))

\* one pass of the loop body, lines 121-128: the value first, then the name
HeaderEntry(headers, entry) ==
    LET value == HeaderValueFromBytes(entry.value)
    IN  IF value.kind /= "ok" THEN value
        ELSE IF entry.name.some
        THEN LET name == HeaderNameFromStr(entry.name.v)
             IN  IF name.kind /= "ok" THEN name
                 ELSE Ok(InsertHeader(headers, name.val, value.val))
        ELSE Ok(headers)

\* the loop of lines 120-129
RECURSIVE CopyResponseHeaders(_, _)
CopyResponseHeaders(headers, entries) ==
    IF entries = <<>> THEN Ok(headers)
    ELSE LET step == HeaderEntry(headers, Head(entries))
         IN  IF step.kind /= "ok" THEN step
             ELSE CopyResponseHeaders(step.val, Tail(entries))

RECURSIVE Concat(_)
Concat(chunks) ==
    IF chunks = <<>> \/ ~Head(chunks).ok THEN <<>>
    ELSE Head(chunks).bytes \o Concat(Tail(chunks))

\* faulty variant of lines 104-115: the stream is drained to its end
DrainData(chunks) ==
    IF \E i \in 1..Len(chunks) : ~chunks[i].ok
    THEN [taken |-> Len(chunks),
          body |-> Fail(Error("BadGateway", "unable to read HTTP response body"))]
    ELSE [taken |-> Len(chunks), body |-> Ok(Concat(chunks))]

\* body.data().await and the match on it (lines 104-115): one poll of the
\* stream; `taken` is the number of chunks it took from the stream
FirstData(chunks) ==
    IF chunks = <<>> THEN [taken |-> 0, body |-> Ok(<<>>)]
    ELSE IF Head(chunks).ok THEN [taken |-> 1, body |-> Ok(Head(chunks).bytes)]
    ELSE [taken |-> 1,
          body |-> Fail(Error("BadGateway", "unable to read HTTP response body"))]

\* Response::new(parts.status) and set_version (lines 117-118): the body is
\* not attached yet
NewResponse(status, version) ==
    [status |-> status, version |-> Some(version), headers |-> EmptyMap,
     body |-> <<>>, bodySet |-> FALSE]

NoResponse ==
    [status |-> 0, version |-> [some |-> FALSE, v |-> ""], headers |-> EmptyMap,
     body |-> <<>>, bodySet |-> FALSE]

(***************************************************************************)
(* The engine and the test's echo endpoint.                                *)
(***************************************************************************)
RECURSIVE Decimal(_)
Decimal(n) == IF n < 10 THEN <<48 + n>> ELSE Decimal(n \div 10) \o <<48 + (n % 10)>>

\* "content-length"
ContentLength == <<99, 111, 110, 116, 101, 110, 116, 45, 108, 101, 110, 103, 116, 104>>

NoAnswer ==
    [kind |-> "none", error |-> Error("", ""), status |-> 0, version |-> "",
     headers |-> EmptyMap, chunks |-> <<>>]

\* client.request(req) failed: the hyper::Error becomes an Error through `?`
TransportError ==
    [NoAnswer EXCEPT !.kind = "transport",
                     !.error = Error("InternalServerError", "error trying to connect")]

NativeResponse(status, version, headers, chunks) ==
    [NoAnswer EXCEPT !.kind = "response", !.status = status, !.version = version,
                     !.headers = headers, !.chunks = chunks]

\* tests::echo (lines 150-154) behind a hyper server: status 200, the length
\* of the body as the only header, the request's body as one chunk (no chunk
\* at all when the body is empty)
Echo(request) ==
    NativeResponse(200, request.version,
                   [n \in {ContentLength} |-> <<Decimal(Len(request.body))>>],
                   IF request.body = <<>> THEN <<>>
                   ELSE <<[ok |-> TRUE, bytes |-> request.body]>>)

(***************************************************************************)
(* Inputs.                                                                 *)
(***************************************************************************)
\* "hello"
Hello == <<104, 101, 108, 108, 111>>

\* "a", "b", and "x y": ASCII, so a name of http_types, but no token
RequestNames == {<<97>>, <<98>>, <<120, 32, 121>>}

\* "x", "y", and "x\ny": ASCII, so a value of http_types, with a line feed
RequestValues == {<<120>>, <<121>>, <<120, 10, 121>>}

\* "a", "b": names of a hyper HeaderMap are lower-case tokens
ResponseNames == {<<97>>, <<98>>}

\* "x", "y", and the single byte 0xE9: obs-text, a value of hyper
ResponseValues == {<<120>>, <<121>>, <<233>>}

ValueSeqs(values, k) == UNION {[1..n -> values] : n \in 1..k}

HeaderMaps(names, values, maxNames, maxVals) ==
    UNION {[D -> ValueSeqs(values, maxVals)] :
              D \in {S \in SUBSET names : Cardinality(S) <= maxNames}}

NoVersion == [some |-> FALSE, v |-> ""]

Url(scheme, len) == [scheme |-> scheme, slashes |-> scheme /= "mailto", len |-> len]

\* URLs of 24 and of 70000 bytes
Urls == {Url(s, l) : s \in {"http", "https", "ftp", "mailto"}, l \in {24, 70000}}

Bodies == {[bytes |-> b, readable |-> r] : b \in {<<>>, Hello}, r \in BOOLEAN}

Requests(urls, versions, headers, bodies) ==
    [method : {"GET"}, url : urls, version : versions, headers : headers,
     body : bodies]

NoRequest ==
    [method |-> "", url |-> Url("", 0), version |-> NoVersion, headers |-> EmptyMap,
     body |-> [bytes |-> <<>>, readable |-> TRUE]]

Chunk(bytes) == [ok |-> TRUE, bytes |-> bytes]

\* the stream fails at this point
BrokenChunk == [ok |-> FALSE, bytes |-> <<>>]

\* "h", "i"
ChunkData == {<<104>>, <<105>>}

ChunkSeqs(k) ==
    UNION {[1..n -> {Chunk(b) : b \in ChunkData} \cup {BrokenChunk}] : n \in 0..k}

Responses(statuses, headers, chunks) ==
    {NativeResponse(s, "HTTP/1.1", h, c) : s \in statuses, h \in headers, c \in chunks}

\* whole sends: few headers, every URL, every body stream
FlowRequests ==
    Requests(Urls, {NoVersion, Some("HTTP/1.0")},
             {EmptyMap} \cup {[n \in {name} |-> <<<<120>>>>] : name \in {<<97>>, <<120, 32, 121>>}}
                        \cup {[n \in {<<97>>} |-> <<<<120, 10, 121>>>>]},
             Bodies)

FlowAnswers ==
    {TransportError}
    \cup Responses({200, 404},
                   {EmptyMap} \cup {[n \in {<<97>>} |-> <<v>>] : v \in {<<120>>, <<233>>}},
                   ChunkSeqs(MaxChunks))

\* request headers in full, one URL, one body
HeaderRequests ==
    Requests({Url("http", 24)}, {NoVersion},
             HeaderMaps(RequestNames, RequestValues, MaxNames, MaxVals),
             {[bytes |-> Hello, readable |-> TRUE]})

HeaderAnswers == {TransportError}

\* response headers in full, behind one request
PlainRequests ==
    Requests({Url("http", 24)}, {NoVersion}, {EmptyMap},
             {[bytes |-> <<>>, readable |-> TRUE]})

HeaderResponses ==
    {TransportError}
    \cup Responses({200}, HeaderMaps(ResponseNames, ResponseValues, MaxNames, MaxVals),
                   {<<>>, <<Chunk(<<104>>)>>})

\* concurrent sends: one request for each way a send can go
ConcurrentRequests ==
    Requests({Url("http", 24), Url("ftp", 24)}, {NoVersion},
             {EmptyMap, [n \in {<<120, 32, 121>>} |-> <<<<120>>>>]},
             {[bytes |-> Hello, readable |-> TRUE], [bytes |-> <<>>, readable |-> FALSE]})

ConcurrentAnswers ==
    {TransportError}
    \cup Responses({404}, {[n \in {<<97>>} |-> <<<<120>>, <<233>>>>]},
                   {<<Chunk(<<104>>), Chunk(<<105>>)>>})

(***************************************************************************)
(* State.                                                                  *)
(***************************************************************************)
VARIABLES
    client,     \* HyperClient.client: the shared engine handle (line 16)
    handle,     \* handle[p]: the clone of the handle send p took (line 38)
    pc,         \* pc[p]: where send p is
    req,        \* req[p]: the abstract request passed to send p
    nreq,       \* nreq[p]: the native request being built (lines 63-88)
    answer,     \* answer[p]: what the engine answered to send p (line 41)
    taken,      \* taken[p]: chunks taken from the native body stream
    body,       \* body[p]: the local `body` of lines 104-115
    res,        \* res[p]: the local `res` of lines 117-131
    result,     \* result[p]: what send p returned
    trace       \* trace[p]: the steps send p has taken, in order

vars == <<client, handle, pc, req, nreq, answer, taken, body, res, result, trace>>

\* the engine built by with_builder_connector (lines 30-32)
Engine == [id |-> "hyper::Client", connector |-> "HttpsConnector"]

\* the handle after a move out of the adapter
NoEngine == [id |-> "", connector |-> ""]

NoResult == [kind |-> "none", val |-> <<>>]

\* HyperClient::new / with_builder_connector (lines 21-33), no send issued yet
Init ==
    /\ client = Engine
    /\ handle = [p \in Procs |-> NoEngine]
    /\ pc = [p \in Procs |-> "idle"]
    /\ req = [p \in Procs |-> NoRequest]
    /\ nreq = [p \in Procs |-> NoNativeRequest]
    /\ answer = [p \in Procs |-> NoAnswer]
    /\ taken = [p \in Procs |-> 0]
    /\ body = [p \in Procs |-> <<>>]
    /\ res = [p \in Procs |-> NoResponse]
    /\ result = [p \in Procs |-> NoResult]
    /\ trace = [p \in Procs |-> <<>>]

\* send p moves on to `label`, having taken step `event`
Goto(p, label, event) ==
    /\ pc' = [pc EXCEPT ![p] = label]
    /\ trace' = [trace EXCEPT ![p] = Append(@, event)]

\* send p returns Err(e)
ReturnErr(p, e, event) ==
    /\ result' = [result EXCEPT ![p] = Fail(e)]
    /\ Goto(p, "done", event)

(***************************************************************************)
(* HyperClient::send, step by step.                                        *)
(***************************************************************************)
\* faulty variant of send: the handle moved out of the adapter instead of cloned
SendTakingHandle(p, requests) ==
    /\ pc[p] = "idle"
    /\ \E r \in requests : req' = [req EXCEPT ![p] = r]
    /\ handle' = [handle EXCEPT ![p] = client]
    /\ client' = NoEngine
    /\ Goto(p, "uri", "clone")
    /\ UNCHANGED <<nreq, answer, taken, body, res, result>>

\* send is called with a request: the handle is cloned and the future is
\* created (lines 37-39)
Send(p, requests) ==
    /\ pc[p] = "idle"
    /\ \E r \in requests : req' = [req EXCEPT ![p] = r]
    /\ handle' = [handle EXCEPT ![p] = client]
    /\ Goto(p, "uri", "clone")
    /\ UNCHANGED <<client, nreq, answer, taken, body, res, result>>

\* faulty variant of lines 55-61, without the `return`: a rejected scheme is noted and the
\* translation goes on
CheckSchemeNoReturn(p) ==
    /\ pc[p] = "uri"
    /\ LET uri == Unwrap(UriTryFrom(req[p].url))
       IN  IF uri.kind /= "ok"
           THEN /\ Goto(p, "panicked", "scheme")
                /\ UNCHANGED <<nreq, result>>
           ELSE /\ nreq' = [nreq EXCEPT ![p].scheme = uri.val.scheme.v]
                /\ Goto(p, "headers", "scheme")
                /\ UNCHANGED result
    /\ UNCHANGED <<client, handle, req, answer, taken, body, res>>

\* the URI is parsed and its scheme checked (lines 55-61)
CheckScheme(p) ==
    /\ pc[p] = "uri"
    /\ LET uri == Unwrap(UriTryFrom(req[p].url))
       IN  IF uri.kind /= "ok"
           THEN /\ Goto(p, "panicked", "scheme")
                /\ UNCHANGED <<nreq, result>>
           ELSE IF SchemeAccepted(uri.val)
           THEN /\ nreq' = [nreq EXCEPT ![p].scheme = uri.val.scheme.v]
                /\ Goto(p, "headers", "scheme")
                /\ UNCHANGED result
           ELSE /\ ReturnErr(p, Error("BadRequest", "invalid scheme"), "scheme")
                /\ UNCHANGED nreq
    /\ UNCHANGED <<client, handle, req, answer, taken, body, res>>

\* the headers are copied into the builder (lines 63-77)
CopyHeaders(p) ==
    /\ pc[p] = "headers"
    /\ LET copied == CopyRequestHeaders(EmptyMap, req[p].headers, DOMAIN req[p].headers)
       IN  IF copied.kind = "ok"
           THEN /\ nreq' = [nreq EXCEPT ![p].headers = copied.val]
                /\ Goto(p, "drain", "headers")
           ELSE /\ Goto(p, "panicked", "headers")
                /\ UNCHANGED nreq
    /\ UNCHANGED <<client, handle, req, answer, taken, body, res, result>>

\* the request body is read to its end (lines 79-80)
DrainBody(p) ==
    /\ pc[p] = "drain"
    /\ LET bytes == BodyBytes(req[p].body)
       IN  IF bytes.kind = "ok"
           THEN /\ nreq' = [nreq EXCEPT ![p].body = bytes.val]
                /\ Goto(p, "assemble", "drain")
                /\ UNCHANGED result
           ELSE /\ ReturnErr(p, bytes.val, "drain")
                /\ UNCHANGED nreq
    /\ UNCHANGED <<client, handle, req, answer, taken, body, res>>

\* method, version, URI and body are put together (lines 82-88, into_inner
\* of line 40); Method, Version and Uri are valid by type, the builder
\* does not fail
Assemble(p) ==
    /\ pc[p] = "assemble"
    /\ nreq' = [nreq EXCEPT ![p].built = TRUE,
                            ![p].method = req[p].method,
                            ![p].version = NativeVersion(req[p].version)]
    /\ Goto(p, "dispatch", "assemble")
    /\ UNCHANGED <<client, handle, req, answer, taken, body, res, result>>

\* client.request(req).await? (line 41): the engine answers with a transport
\* error or a native response; the echo endpoint is one of the servers
Dispatch(p, answers) ==
    /\ pc[p] = "dispatch"
    /\ \E a \in answers \cup {Echo(nreq[p])} :
          /\ answer' = [answer EXCEPT ![p] = a]
          /\ IF a.kind = "response"
             THEN /\ Goto(p, "data", "dispatch")
                  /\ UNCHANGED result
             ELSE ReturnErr(p, a.error, "dispatch")
    /\ UNCHANGED <<client, handle, req, nreq, taken, body, res>>

\* the body stream is polled (lines 102-115)
ReadBody(p) ==
    /\ pc[p] = "data"
    /\ LET data == FirstData(answer[p].chunks)
       IN  /\ taken' = [taken EXCEPT ![p] = data.taken]
           /\ IF data.body.kind = "ok"
              THEN /\ body' = [body EXCEPT ![p] = data.body.val]
                   /\ Goto(p, "response_headers", "data")
                   /\ UNCHANGED result
              ELSE /\ ReturnErr(p, data.body.val, "data")
                   /\ UNCHANGED body
    /\ UNCHANGED <<client, handle, req, nreq, answer, res>>

\* the response is created and the headers are copied back (lines 117-129)
CopyHeadersBack(p) ==
    /\ pc[p] = "response_headers"
    /\ LET new == NewResponse(answer[p].status, answer[p].version)
           copied == CopyResponseHeaders(EmptyMap,
                         IntoIter(answer[p].headers, DOMAIN answer[p].headers))
       IN  IF copied.kind = "ok"
           THEN /\ res' = [res EXCEPT ![p] = [new EXCEPT !.headers = copied.val]]
                /\ Goto(p, "set_body", "response_headers")
                /\ UNCHANGED result
           ELSE /\ res' = [res EXCEPT ![p] = new]
                /\ ReturnErr(p, copied.val, "response_headers")
    /\ UNCHANGED <<client, handle, req, nreq, answer, taken, body>>

\* the body is attached and the response returned (lines 131-133, 42-43)
SetBody(p) ==
    /\ pc[p] = "set_body"
    /\ LET whole == [res[p] EXCEPT !.body = body[p], !.bodySet = TRUE]
       IN  /\ res' = [res EXCEPT ![p] = whole]
           /\ result' = [result EXCEPT ![p] = Ok(whole)]
    /\ Goto(p, "done", "set_body")
    /\ UNCHANGED <<client, handle, req, nreq, answer, taken, body>>

NextOf(procs, requests, answers) ==
    \E p \in procs :
        \/ Send(p, requests)
        \/ CheckScheme(p)
        \/ CopyHeaders(p)
        \/ DrainBody(p)
        \/ Assemble(p)
        \/ Dispatch(p, answers)
        \/ ReadBody(p)
        \/ CopyHeadersBack(p)
        \/ SetBody(p)

\* one send, every way it can go
Next == NextOf({1}, FlowRequests, FlowAnswers)

Spec == Init /\ [][Next]_vars

\* one send, request headers in full
NextRequestHeaders == NextOf({1}, HeaderRequests, HeaderAnswers)

SpecRequestHeaders == Init /\ [][NextRequestHeaders]_vars

\* one send, response headers in full
NextResponseHeaders == NextOf({1}, PlainRequests, HeaderResponses)

SpecResponseHeaders == Init /\ [][NextResponseHeaders]_vars

\* NSends sends on the one adapter, interleaved at every step
NextConcurrent == NextOf(Procs, ConcurrentRequests, ConcurrentAnswers)

SpecConcurrent == Init /\ [][NextConcurrent]_vars

(***************************************************************************)
(* Vocabulary of the properties.                                           *)
(***************************************************************************)
Did(p, event) == \E i \in DOMAIN trace[p] : trace[p][i] = event

Count(p, event) == Cardinality({i \in DOMAIN trace[p] : trace[p][i] = event})

Ended(p) == pc[p] \in {"done", "panicked"}

Returned(p) == pc[p] = "done"

ReturnedOk(p) == pc[p] = "done" /\ result[p].kind = "ok"

ReturnedErr(p, e) == pc[p] = "done" /\ result[p].kind = "err" /\ result[p].val = e

InvalidScheme == Error("BadRequest", "invalid scheme")

BodyUnreadable == Error("BadGateway", "unable to read HTTP response body")

\* some name or value of the headers is refused by the native representation
NativeRefuses(headers) ==
    \E n \in DOMAIN headers :
        \/ HyperHeaderNameFromStr(n).kind /= "ok"
        \/ \E i \in DOMAIN headers[n] : HyperHeaderValueFromBytes(headers[n][i]).kind /= "ok"

\* the order of the steps of one send
Order ==
    <<"clone", "scheme", "headers", "drain", "assemble", "dispatch", "data",
      "response_headers", "set_body">>

\* what send makes of a request and of the engine's answer to it, as one
\* function of the two
SendOutcome(r, a) ==
    LET uri == Unwrap(UriTryFrom(r.url))
        headers == CopyRequestHeaders(EmptyMap, r.headers, DOMAIN r.headers)
        bytes == BodyBytes(r.body)
        data == FirstData(a.chunks).body
        back == CopyResponseHeaders(EmptyMap, IntoIter(a.headers, DOMAIN a.headers))
    IN  IF uri.kind /= "ok" THEN Panic
        ELSE IF ~SchemeAccepted(uri.val) THEN Fail(InvalidScheme)
        ELSE IF headers.kind /= "ok" THEN Panic
        ELSE IF bytes.kind /= "ok" THEN bytes
        ELSE IF a.kind /= "response" THEN Fail(a.error)
        ELSE IF data.kind /= "ok" THEN data
        ELSE IF back.kind /= "ok" THEN back
        ELSE Ok([NewResponse(a.status, a.version) EXCEPT
                    !.headers = back.val, !.body = data.val, !.bodySet = TRUE])

(***************************************************************************)
(* C1.                                                                     *)
(***************************************************************************)
\* C1: request translation succeeds only for the schemes http and https; for
\* every other scheme, and for a URI without scheme, send returns the client
\* error (BadRequest, "invalid scheme") and the engine is never invoked.
C1_OtherSchemesRejected ==
    \A p \in Procs :
        /\ nreq[p].built => req[p].url.scheme \in {"http", "https"}
        /\ (Ended(p) /\ req[p].url.scheme \notin {"http", "https"})
              => /\ ReturnedErr(p, InvalidScheme)
                 /\ ~Did(p, "dispatch")

(***************************************************************************)
(* C2.                                                                     *)
(***************************************************************************)
\* C2: when request translation succeeds, the native request holds every
\* header name of the abstract request and, under each name, the same values
\* in the same order: none overwritten, dropped or duplicated.
C2_RequestHeadersPreserved ==
    \A p \in Procs :
        nreq[p].built
            => /\ DOMAIN nreq[p].headers = DOMAIN req[p].headers
               /\ \A n \in DOMAIN req[p].headers : nreq[p].headers[n] = req[p].headers[n]

\* a request with two names, one of them with two different values, has been
\* translated
C2_Witness ==
    \E p \in Procs :
        /\ nreq[p].built
        /\ Cardinality(DOMAIN req[p].headers) >= 2
        /\ \E n \in DOMAIN req[p].headers :
              /\ Len(req[p].headers[n]) >= 2
              /\ req[p].headers[n][1] /= req[p].headers[n][2]
              /\ nreq[p].headers[n] = req[p].headers[n]

(***************************************************************************)
(* C3.                                                                     *)
(***************************************************************************)
\* C3: when response translation succeeds, the abstract response holds every
\* header name of the native response and, under each name, every value in
\* the original order; no value is dropped.
C3_ResponseHeadersPreserved ==
    \A p \in Procs :
        ReturnedOk(p)
            => /\ DOMAIN result[p].val.headers = DOMAIN answer[p].headers
               /\ \A n \in DOMAIN answer[p].headers :
                     result[p].val.headers[n] = answer[p].headers[n]

(***************************************************************************)
(* C4.                                                                     *)
(***************************************************************************)
\* C4: response translation polls the body stream once and takes at most one
\* chunk: an empty stream gives an empty body, a first chunk gives exactly
\* that chunk as the body, whatever chunks follow it.
C4_FirstChunkOnly ==
    \A p \in Procs :
        Did(p, "data")
            => LET chunks == answer[p].chunks
               IN  /\ Count(p, "data") = 1
                   /\ taken[p] <= 1
                   /\ chunks = <<>>
                         => /\ result[p].kind = "err" => result[p].val /= BodyUnreadable
                            /\ body[p] = <<>>
                            /\ ReturnedOk(p) => result[p].val.body = <<>>
                   /\ (chunks /= <<>> /\ chunks[1].ok)
                         => /\ result[p].kind = "err" => result[p].val /= BodyUnreadable
                            /\ body[p] = chunks[1].bytes
                            /\ ReturnedOk(p) => result[p].val.body = chunks[1].bytes
                   /\ (chunks /= <<>> /\ ~chunks[1].ok) => ReturnedErr(p, BodyUnreadable)

\* a response of two chunks came back as its first chunk
C4_Witness ==
    \E p \in Procs :
        /\ ReturnedOk(p)
        /\ Len(answer[p].chunks) >= 2
        /\ answer[p].chunks[2].ok
        /\ answer[p].chunks[2].bytes /= <<>>
        /\ result[p].val.body = answer[p].chunks[1].bytes

(***************************************************************************)
(* C5.                                                                     *)
(***************************************************************************)
\* C5: every send ends with a whole response or with an error; a failure of
\* request translation, of the engine, of the body read or of the header
\* re-encoding ends it with an error; the engine is invoked at most once and
\* the body polled at most once.
C5_ResponseOrError ==
    \A p \in Procs :
        /\ Ended(p) => result[p].kind \in {"ok", "err"}
        /\ result[p].kind = "ok"
              => /\ result[p].val.bodySet
                 /\ result[p].val.version.some
                 /\ result[p].val.status = answer[p].status
        /\ (Ended(p) /\ ~nreq[p].built) => result[p].kind = "err"
        /\ (Ended(p) /\ answer[p].kind = "transport") => result[p].kind = "err"
        /\ Count(p, "dispatch") <= 1
        /\ Count(p, "data") <= 1

(***************************************************************************)
(* C6.                                                                     *)
(***************************************************************************)
\* C6: a header name or value that the native representation refuses, and a
\* request body that cannot be read, make send return an error value; the
\* send ends in no other way.
C6_TranslationFailuresReturned ==
    \A p \in Procs :
        /\ (Ended(p) /\ Did(p, "headers") /\ NativeRefuses(req[p].headers))
              => /\ Returned(p)
                 /\ result[p].kind = "err"
        /\ (Ended(p) /\ Did(p, "drain") /\ ~req[p].body.readable)
              => /\ Returned(p)
                 /\ result[p].kind = "err"

(***************************************************************************)
(* C7.                                                                     *)
(***************************************************************************)
\* C7: a send over http whose request reached the echo endpoint, which
\* returns the body unchanged in one chunk, succeeds with the request's body
\* and the endpoint's status.
C7_EchoRoundTrip ==
    \A p \in Procs :
        (Returned(p) /\ req[p].url.scheme = "http" /\ answer[p] = Echo(nreq[p]))
            => /\ result[p].kind = "ok"
               /\ result[p].val.body = req[p].body.bytes
               /\ result[p].val.status = 200

\* GET with the body "hello" came back with the body "hello"
C7_Witness ==
    \E p \in Procs :
        /\ ReturnedOk(p)
        /\ req[p].method = "GET"
        /\ req[p].url.scheme = "http"
        /\ req[p].body.bytes = Hello
        /\ answer[p] = Echo(nreq[p])
        /\ result[p].val.body = Hello
        /\ result[p].val.status = 200

(***************************************************************************)
(* C8.                                                                     *)
(***************************************************************************)
\* C8: with several sends interleaved, the adapter's handle stays the engine
\* it was built with, every send holds a clone of it, and what a send ends
\* with is a function of its own request and of the engine's answer to it.
C8_SharedHandleIsolation ==
    /\ client = Engine
    /\ \A p \in Procs :
          /\ pc[p] /= "idle" => handle[p] = Engine
          /\ Ended(p)
                => LET outcome == SendOutcome(req[p], answer[p])
                   IN  IF outcome.kind = "panic" THEN pc[p] = "panicked"
                       ELSE /\ pc[p] = "done"
                            /\ result[p].kind = outcome.kind
                            /\ result[p].val = outcome.val

\* two sends of the same request, on clones of the same handle, ended
\* differently, each by the engine's answer to it
C8_Witness ==
    \E p, q \in Procs :
        /\ p /= q
        /\ ReturnedOk(p)
        /\ pc[q] = "done" /\ result[q].kind = "err"
        /\ req[p] = req[q]
        /\ answer[p] /= answer[q]
        /\ handle[p] = handle[q]

(***************************************************************************)
(* C9.                                                                     *)
(***************************************************************************)
\* C9: the steps of a send follow one order; the body is drained only after
\* the scheme was accepted, the engine invoked only after the native request
\* was built, the response translated only after the engine returned one,
\* and a transport error is returned without any response translation.
C9_StepOrder ==
    \A p \in Procs :
        /\ Len(trace[p]) <= Len(Order)
        /\ \A i \in DOMAIN trace[p] : trace[p][i] = Order[i]
        /\ Did(p, "drain")
              => /\ UriTryFrom(req[p].url).kind = "ok"
                 /\ SchemeAccepted(UriTryFrom(req[p].url).val)
        /\ Did(p, "dispatch")
              => /\ nreq[p].built
                 /\ ~NativeRefuses(req[p].headers)
                 /\ req[p].body.readable
        /\ Did(p, "data") => answer[p].kind = "response"
        /\ answer[p].kind = "transport"
              => /\ ~Did(p, "data")
                 /\ ~Did(p, "response_headers")
                 /\ ReturnedErr(p, answer[p].error)

\* a send went through every step
C9_Witness == \E p \in Procs : ReturnedOk(p) /\ trace[p] = Order

(***************************************************************************)
(* C10.                                                                    *)
(***************************************************************************)
\* C10 as stated: an entry without name adds nothing and never makes the
\* translation fail, whatever its value; so a response whose named entries
\* all re-encode is translated.
C10_UnnamedNeverFails ==
    \A p \in Procs :
        Did(p, "response_headers")
            => LET entries == IntoIter(answer[p].headers, DOMAIN answer[p].headers)
               IN  (\A i \in DOMAIN entries :
                        entries[i].name.some
                            => HeaderValueFromBytes(entries[i].value).kind = "ok")
                      => result[p].kind /= "err"

\* C10 amended: an entry without name adds nothing to the abstract response,
\* but its value is validated before its name is looked at, so the
\* translation fails exactly when some value, named or not, is refused;
\* entries with a name are re-encoded and stored.
C10_UnnamedSkippedAfterValidation ==
    \A p \in Procs :
        Did(p, "response_headers")
            => LET h == answer[p].headers
               IN  IF \A n \in DOMAIN h : \A i \in DOMAIN h[n] :
                          HeaderValueFromBytes(h[n][i]).kind = "ok"
                   THEN /\ result[p].kind /= "err"
                        /\ res[p].headers = [n \in DOMAIN h |-> <<h[n][1]>>]
                   ELSE /\ pc[p] = "done"
                        /\ result[p].kind = "err"

\* a response with two values under one name was translated: the entry of
\* the second value has no name and left nothing behind
C10_Witness ==
    \E p \in Procs :
        /\ ReturnedOk(p)
        /\ \E n \in DOMAIN answer[p].headers :
              /\ Len(answer[p].headers[n]) >= 2
              /\ answer[p].headers[n][2] /= answer[p].headers[n][1]
              /\ result[p].val.headers[n] = <<answer[p].headers[n][1]>>

====
